---- MODULE Spec2Model ----
(***************************************************************************)
(* Model of utils/firebase_utils.py: the lazily acquired Firestore client  *)
(* (module global db, get_db) and the four operations built on it          *)
(* (create_new_chat, get_chat_threads, store_message, get_chat_messages).  *)
(*                                                                         *)
(* Request handlers run on concurrent threads.  Every access to the shared *)
(* global db, every read of the process environment and every round trip   *)
(* to the document store is one step of the calling thread, so all         *)
(* interleavings of concurrent calls are explored.                         *)
(***************************************************************************)
EXTENDS Integers, Sequences, FiniteSets, TLC

\* ------------------------------------------------------------------ bounds
NumThreads == 2      \* concurrent request-handling threads
MaxConvs == 2        \* documents the "conversations" collection may hold
MaxMsgs == 2         \* documents the "messages" collection may hold
MaxEnvChanges == 1   \* changes of the process environment in one run
MaxCalls == 3        \* operations called in one run

Threads == 1..NumThreads

\* ------------------------------------------------------------------ values
None == 0                          \* db = None (line 15); clients are 1, 2, ...

Uids == {"u1", "u2"}
Titles == {"Untitled"}
Questions == {"q"}
Answers == {"a"}
WallTimes == {7}                   \* values datetime.utcnow().timestamp() may give
ConvIds == 1..MaxConvs             \* auto-generated document ids: the n-th non-empty id string
ChatIds == ConvIds                 \* chat_id arguments: ids a thread has or may get

Detail == "Firestore is not configured. Set GOOGLE_APPLICATION_CREDENTIALS or FIREBASE_CREDENTIALS_JSON in environment."

\* The process environment as get_db reads it (lines 31, 32, 40):
\* FIREBASE_CREDENTIALS_JSON (unset, not JSON, or a service-account blob),
\* GOOGLE_APPLICATION_CREDENTIALS (unset, or a path whose file is missing or
\* exists), and
\* whether default-credential discovery by firestore.Client() succeeds.
Environment(json, path, adc) == [firebase_json |-> json, cred_path |-> path, adc |-> adc]

EnvStates ==
    {Environment("", "", FALSE),           \* nothing configured
     Environment("malformed", "", FALSE),  \* blob that is not JSON
     Environment("valid", "", FALSE),      \* service-account blob
     Environment("", "missing", FALSE),    \* path of a file that does not exist
     Environment("", "exists", TRUE),      \* credential file in place
     Environment("", "", TRUE)}            \* ambient default credentials

VARIABLES
    db,          \* the module global db: None or a client
    env,         \* the process environment
    envChanges,  \* number of environment changes so far
    ncalls,      \* number of operations called so far
    nclients,    \* number of clients constructed so far
    convs,       \* collection "conversations": set of documents
    msgs,        \* collection "messages": set of documents
    clock,       \* latest commit timestamp the store has assigned
    pc,          \* per thread: position in the running call
    call,        \* per thread: operation and arguments
    client,      \* per thread: result of get_db / freshly constructed client
    floor,       \* per thread: store clock when the pending write was sent
    ret,         \* per thread: outcome of the call
    hist,        \* per thread: history of the running call
    created,     \* history: <<uid, id>> returned by create_new_chat
    before,      \* history: <<k1, k2>>: message k1 was stored before the store_message of k2 was sent
    first        \* history: the first result any get_db call resolved to

vars == <<db, env, envChanges, ncalls, nclients, convs, msgs, clock, pc, call, client,
          floor, ret, hist, created, before, first>>

storeVars == <<convs, msgs, clock, created, before>>
acqVars == <<db, nclients, first>>
envVars == <<env, envChanges>>
callVars == <<pc, call, client, floor, ret, hist>>

\* ------------------------------------------------------------------ helpers
Max(S) == CHOOSE x \in S : \A y \in S : y <= x

NoCall == [op |-> "none"]
NoRet == [kind |-> "none"]
NoHist == [sawNone |-> FALSE, attempted |-> FALSE, failed |-> FALSE,
           touched |-> FALSE, late |-> FALSE]

\* ------------------------------------------------------------------ get_db
\* Lines 31-48: what one pass through the try block does in environment e.
\* json.loads raises on a malformed blob (line 35); with a valid blob the
\* client is built from it (lines 36-37); otherwise firestore.Client() is
\* called (line 43 or line 47) and raises when default-credential discovery
\* fails.
Acquire(e) ==
    IF e.firebase_json # ""
    THEN IF e.firebase_json = "malformed"
         THEN [ok |-> FALSE, exc |-> "JSONDecodeError", line |-> 35]
         ELSE [ok |-> TRUE, exc |-> "", line |-> 37]
    ELSE IF e.cred_path # "" /\ e.cred_path = "exists"
         THEN IF e.adc
              THEN [ok |-> TRUE, exc |-> "", line |-> 43]
              ELSE [ok |-> FALSE, exc |-> "DefaultCredentialsError", line |-> 43]
         ELSE IF e.adc
              THEN [ok |-> TRUE, exc |-> "", line |-> 47]
              ELSE [ok |-> FALSE, exc |-> "DefaultCredentialsError", line |-> 47]

\* Faulty variant: the handler names the credential error only.
CatchesCredentialErrorOnly(exc) == exc = "DefaultCredentialsError"

\* Line 49: "except Exception" handles every exception class the try block raises.
Catches(exc) == exc \in {"JSONDecodeError", "DefaultCredentialsError"}

\* Faulty variant: the test of line 26 inverted.
HandleCachedInverted(d) == d = None

\* Line 26: "if db is not None".
HandleCached(d) == d # None

\* Line 51: what the except handler stores into db.
ExceptStore(d) == None

\* A get_db call returns r: remember the first result ever resolved.
Resolve(r) == IF first.resolved THEN first ELSE [resolved |-> TRUE, value |-> r]

\* A request thread enters one of the four operations; each starts with
\* "client = get_db()" (lines 69, 84, 94, 110), which first tests the global
\* (line 26).  get_db reads none of the operation's arguments, so they are
\* drawn when the operation's body runs.
Call(t) ==
    /\ pc[t] = "idle"
    /\ ncalls < MaxCalls
    /\ ncalls' = ncalls + 1
    /\ pc' = [pc EXCEPT ![t] = IF HandleCached(db) THEN "L27" ELSE "try"]
    /\ hist' = [hist EXCEPT ![t] = [NoHist EXCEPT !.late = first.resolved,
                                                  !.sawNone = (db = None)]]
    /\ UNCHANGED <<acqVars, envVars, storeVars, call, client, floor, ret>>

\* Line 27: "return db" reads the global again.
get_db_cached(t) ==
    /\ pc[t] = "L27"
    /\ client' = [client EXCEPT ![t] = db]
    /\ first' = Resolve(db)
    /\ pc' = [pc EXCEPT ![t] = "body"]
    /\ UNCHANGED <<db, nclients, envVars, ncalls, storeVars, call, floor, ret, hist>>

\* Lines 29-47: the try block up to the construction of the client.
get_db_try(t) ==
    /\ pc[t] = "try"
    /\ LET out == Acquire(env) IN
       /\ hist' = [hist EXCEPT ![t].attempted = TRUE, ![t].failed = ~out.ok]
       /\ IF out.ok
          THEN /\ nclients' = nclients + 1
               /\ client' = [client EXCEPT ![t] = nclients + 1]
               /\ pc' = [pc EXCEPT ![t] = "assign"]
               /\ ret' = ret
          ELSE /\ UNCHANGED <<nclients, client>>
               /\ IF Catches(out.exc)
                  THEN /\ pc' = [pc EXCEPT ![t] = "except"]
                       /\ ret' = ret
                  ELSE /\ pc' = [pc EXCEPT ![t] = "done"]
                       /\ ret' = [ret EXCEPT ![t] = [kind |-> "raise", exc |-> out.exc]]
    /\ UNCHANGED <<db, first, envVars, ncalls, storeVars, call, floor>>

\* Lines 37, 43, 47: "db = <the new client>".
get_db_assign(t) ==
    /\ pc[t] = "assign"
    /\ db' = client[t]
    /\ pc' = [pc EXCEPT ![t] = "return"]
    /\ UNCHANGED <<nclients, first, envVars, ncalls, storeVars, call, client, floor, ret, hist>>

\* Lines 38, 44, 48: "return db" reads the global again.
get_db_return(t) ==
    /\ pc[t] = "return"
    /\ client' = [client EXCEPT ![t] = db]
    /\ first' = Resolve(db)
    /\ pc' = [pc EXCEPT ![t] = "body"]
    /\ UNCHANGED <<db, nclients, envVars, ncalls, storeVars, call, floor, ret, hist>>

\* Lines 49-52: the except handler stores None and returns None.
get_db_except(t) ==
    /\ pc[t] = "except"
    /\ db' = ExceptStore(db)
    /\ client' = [client EXCEPT ![t] = None]
    /\ first' = Resolve(None)
    /\ pc' = [pc EXCEPT ![t] = "body"]
    /\ UNCHANGED <<nclients, envVars, ncalls, storeVars, call, floor, ret, hist>>

\* ------------------------------------------------------------------ the document store
\* Line 71 (and 86, 96, 112): the condition every operation raises without a client.
HTTPException503 == [kind |-> "HTTPException", status_code |-> 503, detail |-> Detail]

\* Lines 70, 85, 95, 111: "if client is None".
Unavailable(c) == c = None

\* Faulty variant: the title stored in the uid field.
ThreadDocTitleAsUid(id, title, ts, uid) ==
    [id |-> id, title |-> title, createdAt |-> ts, uid |-> title]

\* Lines 74-79: the document create_new_chat writes; its key is its id.
ThreadDoc(id, title, ts, uid) ==
    [id |-> id, title |-> title, createdAt |-> ts, uid |-> uid]

\* Line 99: str(datetime.utcnow().timestamp()).
MessageId(w) == ToString(w)

\* Faulty variant: the document's own key stored as its thread id.
MessageDocOwnKey(key, w, chat_id, user_msg, ai_msg, ts, uid) ==
    [key |-> key, id |-> MessageId(w), conversationId |-> key,
     question |-> user_msg, answer |-> ai_msg, createdAt |-> ts, uid |-> uid]

\* Lines 98-105: the document store_message adds under the auto-generated key.
MessageDoc(key, w, chat_id, user_msg, ai_msg, ts, uid) ==
    [key |-> key, id |-> MessageId(w), conversationId |-> chat_id,
     question |-> user_msg, answer |-> ai_msg, createdAt |-> ts, uid |-> uid]

\* doc.to_dict(): the fields of a document, without its key.
ToDict(d) ==
    IF "key" \in DOMAIN d
    THEN [id |-> d.id, conversationId |-> d.conversationId, question |-> d.question,
          answer |-> d.answer, createdAt |-> d.createdAt, uid |-> d.uid]
    ELSE d

DocKey(d) == IF "key" \in DOMAIN d THEN d.key ELSE d.id

\* firestore.SERVER_TIMESTAMP: the commit time the store assigns to a write sent
\* when its clock read "sent".  Commit times never run backwards and a write
\* sent after an earlier one was acknowledged commits strictly later; a write
\* that overlaps another one may be given the same commit time.
ServerTimestamps(now, sent) == IF now > sent THEN {now, now + 1} ELSE {now + 1}

\* Faulty variant: newest first.
PrecedesNewestFirst(d, e) ==
    \/ d.createdAt > e.createdAt
    \/ d.createdAt = e.createdAt /\ DocKey(d) > DocKey(e)

\* order_by("createdAt"): ascending creation time, equal times by document key.
Precedes(d, e) ==
    \/ d.createdAt < e.createdAt
    \/ d.createdAt = e.createdAt /\ DocKey(d) < DocKey(e)

RECURSIVE Ascending(_)
Ascending(S) ==
    IF S = {} THEN <<>>
    ELSE LET d == CHOOSE x \in S : \A y \in S \ {x} : Precedes(x, y)
         IN <<d>> \o Ascending(S \ {d})

Reverse(s) == [i \in 1..Len(s) |-> s[Len(s) + 1 - i]]

\* Faulty variant: the direction argument dropped.
DescendingDropped(S) == Ascending(S)

\* direction=firestore.Query.DESCENDING (line 89).
Descending(S) == Reverse(Ascending(S))

\* Faulty variant: the filter dropped.
WhereUidDropped(S, uid) == S

\* Line 88: where("uid", "==", uid).
WhereUid(S, uid) == {d \in S : d.uid = uid}

\* Line 114: where("conversationId", "==", chat_id).
WhereConversation(S, chat_id) == {d \in S : d.conversationId = chat_id}

\* Lines 88-90: the list get_chat_threads returns over collection C.
ThreadsOf(C, uid) ==
    LET docs == Descending(WhereUid(C, uid))
    IN [i \in 1..Len(docs) |-> ToDict(docs[i])]

\* Faulty variant: the messages also filtered by the caller's uid.
MessagesOfCaller(M, uid, chat_id) ==
    LET docs == Ascending({d \in WhereConversation(M, chat_id) : d.uid = uid})
    IN [i \in 1..Len(docs) |-> ToDict(docs[i])]

\* Lines 114-116: the list get_chat_messages returns over collection M.
MessagesOf(M, uid, chat_id) ==
    LET docs == Ascending(WhereConversation(M, chat_id))
    IN [i \in 1..Len(docs) |-> ToDict(docs[i])]

\* document() (line 73) and add() (line 98) generate a key no document of the
\* collection has.
NewKey(used) == Max(used \cup {0}) + 1

\* Lines 73-79: set() stores the document under its key, in place of any
\* document that has the key already.
DocSet(C, d) == {c \in C : DocKey(c) # DocKey(d)} \cup {d}

\* Faulty variant: the document stored under its thread id, replacing what was there.
DocAddPerThread(M, d) == {m \in M : m.conversationId # d.conversationId} \cup {d}

\* Line 98: add() stores the document under a new key.
DocAdd(M, d) == M \cup {d}

\* Writes in flight; a write is sent only while its collection has room for it.
Pending(o) == Cardinality({u \in Threads : call[u].op = o /\ pc[u] = "commit"})

\* Lines 70-71, 85-86, 95-96, 111-112: without a client the operation raises.
Raise503(t, c) ==
    /\ Unavailable(client[t])
    /\ call' = [call EXCEPT ![t] = c]
    /\ ret' = [ret EXCEPT ![t] = HTTPException503]
    /\ pc' = [pc EXCEPT ![t] = "done"]
    /\ UNCHANGED <<floor, hist>>

\* Lines 68-74: create_new_chat up to the write it sends to the store.
create_new_chat(t, uid, title) ==
    LET c == [op |-> "create_new_chat", uid |-> uid, title |-> title] IN
    /\ pc[t] = "body"
    /\ \/ Raise503(t, c)
       \/ /\ ~Unavailable(client[t])
          /\ Cardinality(convs) + Pending(c.op) < MaxConvs
          /\ call' = [call EXCEPT ![t] = c]
          /\ hist' = [hist EXCEPT ![t].touched = TRUE]
          /\ floor' = [floor EXCEPT ![t] = [ts |-> clock, keys |-> {}]]
          /\ pc' = [pc EXCEPT ![t] = "commit"]
          /\ ret' = ret
    /\ UNCHANGED <<acqVars, envVars, ncalls, storeVars, client>>

\* Lines 83-90: get_chat_threads.
get_chat_threads(t, uid) ==
    LET c == [op |-> "get_chat_threads", uid |-> uid] IN
    /\ pc[t] = "body"
    /\ \/ Raise503(t, c)
       \/ /\ ~Unavailable(client[t])
          /\ call' = [call EXCEPT ![t] = c]
          /\ hist' = [hist EXCEPT ![t].touched = TRUE]
          /\ ret' = [ret EXCEPT ![t] = [kind |-> "list", docs |-> ThreadsOf(convs, uid)]]
          /\ pc' = [pc EXCEPT ![t] = "done"]
          /\ floor' = floor
    /\ UNCHANGED <<acqVars, envVars, ncalls, storeVars, client>>

\* Lines 93-105: store_message up to the write it sends to the store.
store_message(t, uid, chat_id, user_msg, ai_msg) ==
    LET c == [op |-> "store_message", uid |-> uid, chat_id |-> chat_id,
              user_msg |-> user_msg, ai_msg |-> ai_msg] IN
    /\ pc[t] = "body"
    /\ \/ Raise503(t, c)
       \/ /\ ~Unavailable(client[t])
          /\ Cardinality(msgs) + Pending(c.op) < MaxMsgs
          /\ call' = [call EXCEPT ![t] = c]
          /\ hist' = [hist EXCEPT ![t].touched = TRUE]
          /\ floor' = [floor EXCEPT ![t] = [ts |-> clock, keys |-> {m.key : m \in msgs}]]
          /\ pc' = [pc EXCEPT ![t] = "commit"]
          /\ ret' = ret
    /\ UNCHANGED <<acqVars, envVars, ncalls, storeVars, client>>

\* Lines 109-116: get_chat_messages.
get_chat_messages(t, uid, chat_id) ==
    LET c == [op |-> "get_chat_messages", uid |-> uid, chat_id |-> chat_id] IN
    /\ pc[t] = "body"
    /\ \/ Raise503(t, c)
       \/ /\ ~Unavailable(client[t])
          /\ call' = [call EXCEPT ![t] = c]
          /\ hist' = [hist EXCEPT ![t].touched = TRUE]
          /\ ret' = [ret EXCEPT ![t] =
                       [kind |-> "list", docs |-> MessagesOf(msgs, uid, chat_id)]]
          /\ pc' = [pc EXCEPT ![t] = "done"]
          /\ floor' = floor
    /\ UNCHANGED <<acqVars, envVars, ncalls, storeVars, client>>

\* Lines 73-80: the store commits the thread document; its id is returned.
create_new_chat_commit(t) ==
    /\ pc[t] = "commit"
    /\ call[t].op = "create_new_chat"
    /\ \E id \in {NewKey({c.id : c \in convs})} :
       \E ts \in ServerTimestamps(clock, floor[t].ts) :
          /\ convs' = DocSet(convs, ThreadDoc(id, call[t].title, ts, call[t].uid))
          /\ clock' = ts
          /\ ret' = [ret EXCEPT ![t] = [kind |-> "id", id |-> id]]
          /\ created' = created \cup {<<call[t].uid, id>>}
    /\ pc' = [pc EXCEPT ![t] = "done"]
    /\ UNCHANGED <<acqVars, envVars, ncalls, msgs, before, call, client, floor, hist>>

\* Lines 98-106: the store commits the message document; True is returned.
store_message_commit(t) ==
    /\ pc[t] = "commit"
    /\ call[t].op = "store_message"
    /\ \E key \in {NewKey({m.key : m \in msgs})} :
       \E w \in WallTimes :
       \E ts \in ServerTimestamps(clock, floor[t].ts) :
          /\ msgs' = DocAdd(msgs, MessageDoc(key, w, call[t].chat_id, call[t].user_msg,
                                             call[t].ai_msg, ts, call[t].uid))
          /\ clock' = ts
          /\ before' = before \cup {<<k, key>> : k \in floor[t].keys}
    /\ ret' = [ret EXCEPT ![t] = [kind |-> "bool", value |-> TRUE]]
    /\ pc' = [pc EXCEPT ![t] = "done"]
    /\ UNCHANGED <<acqVars, envVars, ncalls, convs, created, call, client, floor, hist>>

\* The operation has returned or raised; the thread is free for the next request.
Finish(t) ==
    /\ pc[t] = "done"
    /\ pc' = [pc EXCEPT ![t] = "idle"]
    /\ call' = [call EXCEPT ![t] = NoCall]
    /\ client' = [client EXCEPT ![t] = None]
    /\ floor' = [floor EXCEPT ![t] = [ts |-> 0, keys |-> {}]]
    /\ ret' = [ret EXCEPT ![t] = NoRet]
    /\ hist' = [hist EXCEPT ![t] = NoHist]
    /\ UNCHANGED <<acqVars, envVars, ncalls, storeVars>>

\* The environment changes under the running process: a variable is set or
\* cleared, the credential file appears or disappears, discovery starts or
\* stops working.
SetEnv(e) ==
    /\ envChanges < MaxEnvChanges
    /\ e # env
    /\ env' = e
    /\ envChanges' = envChanges + 1
    /\ UNCHANGED <<acqVars, storeVars, callVars, ncalls>>

\* ------------------------------------------------------------------ specification
Init ==
    /\ db = None
    /\ env \in EnvStates
    /\ envChanges = 0
    /\ ncalls = 0
    /\ nclients = 0
    /\ convs = {}
    /\ msgs = {}
    /\ clock = 0
    /\ pc = [t \in Threads |-> "idle"]
    /\ call = [t \in Threads |-> NoCall]
    /\ client = [t \in Threads |-> None]
    /\ floor = [t \in Threads |-> [ts |-> 0, keys |-> {}]]
    /\ ret = [t \in Threads |-> NoRet]
    /\ hist = [t \in Threads |-> NoHist]
    /\ created = {}
    /\ before = {}
    /\ first = [resolved |-> FALSE, value |-> None]

Next ==
    \/ \E t \in Threads : Call(t)
    \/ \E t \in Threads : get_db_cached(t)
    \/ \E t \in Threads : get_db_try(t)
    \/ \E t \in Threads : get_db_assign(t)
    \/ \E t \in Threads : get_db_return(t)
    \/ \E t \in Threads : get_db_except(t)
    \/ \E t \in Threads : \E uid \in Uids : \E title \in Titles : create_new_chat(t, uid, title)
    \/ \E t \in Threads : \E uid \in Uids : get_chat_threads(t, uid)
    \/ \E t \in Threads : \E uid \in Uids : \E chat_id \in ChatIds :
          \E user_msg \in Questions : \E ai_msg \in Answers :
             store_message(t, uid, chat_id, user_msg, ai_msg)
    \/ \E t \in Threads : \E uid \in Uids : \E chat_id \in ChatIds :
          get_chat_messages(t, uid, chat_id)
    \/ \E t \in Threads : create_new_chat_commit(t)
    \/ \E t \in Threads : store_message_commit(t)
    \/ \E t \in Threads : Finish(t)
    \/ \E e \in EnvStates : SetEnv(e)

Spec == Init /\ [][Next]_vars

\* ------------------------------------------------------------------ steps the claims speak about
Ops == {"create_new_chat", "get_chat_threads", "store_message", "get_chat_messages"}

\* get_db has returned to thread t and the operation's body has not run yet.
GotClient(t) == pc[t] = "body"

\* Thread t's operation o returns a value in this step.
Returns(t, o) == pc[t] # "done" /\ pc'[t] = "done" /\ call'[t].op = o /\ ret'[t].kind # "HTTPException"

\* Thread t's finished operation o returned a list.
Listed(t, o) == pc[t] = "done" /\ call[t].op = o /\ ret[t].kind = "list"

Elems(s) == {s[i] : i \in 1..Len(s)}

\* ------------------------------------------------------------------ claims

\* C1 (as stated): once get_db has resolved, to a client or to None, every call
\* of get_db that starts later returns that same result and makes no
\* acquisition attempt of its own.
C1_ResultCachedForLifetime ==
    \A t \in Threads :
        (GotClient(t) /\ hist[t].late) =>
            (client[t] = first.value /\ ~hist[t].attempted)

\* C1 (amended): a get_db call attempts acquisition exactly when it finds no
\* client stored in db on entry, and what it returns is None or a constructed
\* client; so only a client is cached and a None result is retried by every
\* later call.
C1_OnlyClientCached ==
    \A t \in Threads :
        GotClient(t) =>
            /\ hist[t].attempted <=> hist[t].sawNone
            /\ client[t] \in {None} \cup 1..nclients

\* A get_db call that started after the first result had resolved to None
\* attempted acquisition again and obtained a client.
C1_RetryWitness ==
    \E t \in Threads :
        /\ GotClient(t)
        /\ hist[t].late
        /\ first.value = None
        /\ hist[t].attempted
        /\ client[t] # None

\* C2: a failed acquisition never propagates out of get_db, and the operation
\* that made it ends with the fixed 503 condition without having sent any read
\* or write to the store.
C2_FailedAcquisitionGives503 ==
    \A t \in Threads :
        hist[t].failed =>
            /\ pc[t] \in {"except", "body", "done"}
            /\ ret[t].kind # "raise"
            /\ ~hist[t].touched
            /\ pc[t] = "body" => client[t] = None
            /\ pc[t] = "done" => (call[t].op \in Ops /\ ret[t] = HTTPException503)

\* An operation whose acquisition failed on a malformed credential blob has
\* ended with the 503 condition.
C2_Witness ==
    \E t \in Threads :
        /\ pc[t] = "done"
        /\ hist[t].failed
        /\ env.firebase_json = "malformed"
        /\ ret[t] = HTTPException503

\* C3: an acquisition that fails has no side effect on the shared handle: the
\* step that handles the failure never discards or replaces a client another
\* request has stored in db.
C3_FailureLeavesHandle ==
    [][\A t \in Threads :
          (pc[t] = "except" /\ pc'[t] # "except") => (db # None => db' = db)]_vars

\* C4: create_new_chat inserts exactly one thread record, carrying the uid it
\* was given, and returns that record's non-empty generated id; and whenever
\* get_chat_threads(uid) returns, its result holds a record for every id
\* create_new_chat has returned for that uid before.
C4_CreatedThreadIsListed ==
    [][\A t \in Threads :
          /\ Returns(t, "create_new_chat") =>
                /\ ret'[t].kind = "id"
                /\ ret'[t].id \in ConvIds
                /\ \E d \in convs' :
                      /\ convs' \ convs = {d}
                      /\ d.id = ret'[t].id
                      /\ d.uid = call[t].uid
          /\ Returns(t, "get_chat_threads") =>
                \A c \in created :
                    c[1] = call'[t].uid =>
                        \E i \in 1..Len(ret'[t].docs) : ret'[t].docs[i].id = c[2]]_vars

\* get_chat_threads has returned a list holding an id that create_new_chat
\* returned for the same user, with a message stored in between.
C4_Witness ==
    \E t \in Threads :
        /\ Listed(t, "get_chat_threads")
        /\ msgs # {}
        /\ \E c \in created :
              /\ c[1] = call[t].uid
              /\ \E i \in 1..Len(ret[t].docs) : ret[t].docs[i].id = c[2]

\* C5: when store_message for a thread id returned before a second
\* store_message for the same thread id was called, every get_chat_messages for
\* that thread id returns the first message before the second, and the first
\* has the strictly earlier creation time.
C5_MessagesInInsertionOrder ==
    [][\A t \in Threads :
          Returns(t, "get_chat_messages") =>
             \A m1 \in msgs : \A m2 \in msgs :
                ( /\ <<m1.key, m2.key>> \in before
                  /\ m1.conversationId = call'[t].chat_id
                  /\ m2.conversationId = call'[t].chat_id ) =>
                   \E i \in 1..Len(ret'[t].docs) : \E j \in 1..Len(ret'[t].docs) :
                      /\ i < j
                      /\ ret'[t].docs[i] = ToDict(m1)
                      /\ ret'[t].docs[j] = ToDict(m2)
                      /\ ret'[t].docs[i].createdAt < ret'[t].docs[j].createdAt]_vars

\* get_chat_messages has returned two messages of one thread that were stored
\* one after the other.
C5_Witness ==
    \E t \in Threads :
        /\ Listed(t, "get_chat_messages")
        /\ Len(ret[t].docs) = 2
        /\ \E p \in before :
              \A m \in msgs : m.key \in {p[1], p[2]} => m.conversationId = call[t].chat_id

\* C6 (as stated): every list get_chat_threads returns is in strictly
\* descending creation-time order.
C6_StrictlyDescending ==
    \A t \in Threads :
        Listed(t, "get_chat_threads") =>
            \A i \in 1..(Len(ret[t].docs) - 1) :
                ret[t].docs[i].createdAt > ret[t].docs[i + 1].createdAt

\* C6 (amended): every list get_chat_threads returns is in descending
\* creation-time order, adjacent records possibly carrying equal times.
C6_Descending ==
    \A t \in Threads :
        Listed(t, "get_chat_threads") =>
            \A i \in 1..(Len(ret[t].docs) - 1) :
                ret[t].docs[i].createdAt >= ret[t].docs[i + 1].createdAt

\* get_chat_threads has returned two records with different creation times.
C6_Witness ==
    \E t \in Threads :
        /\ Listed(t, "get_chat_threads")
        /\ Len(ret[t].docs) = 2
        /\ ret[t].docs[1].createdAt > ret[t].docs[2].createdAt

\* C7: store_message returns True and leaves the conversations collection as
\* it is, whether or not a thread with the given id exists; and
\* get_chat_messages for a thread id returns every message stored under that
\* id, also when no thread has it.
C7_OrphanMessageStoredAndListed ==
    [][\A t \in Threads :
          /\ Returns(t, "store_message") =>
                /\ ret'[t] = [kind |-> "bool", value |-> TRUE]
                /\ convs' = convs
                /\ \E m \in msgs' \ msgs : m.conversationId = call[t].chat_id
          /\ Returns(t, "get_chat_messages") =>
                \A m \in msgs :
                    m.conversationId = call'[t].chat_id =>
                        ToDict(m) \in Elems(ret'[t].docs)]_vars

\* get_chat_messages has returned a message for a thread id no thread has.
C7_Witness ==
    \E t \in Threads :
        /\ Listed(t, "get_chat_messages")
        /\ Len(ret[t].docs) >= 1
        /\ \A c \in convs : c.id # call[t].chat_id

\* C8: get_chat_threads(uid) returns exactly the records of the threads whose
\* uid is the given one, each once; for a user without threads that is the
\* empty list.
C8_ExactlyOwnThreads ==
    [][\A t \in Threads :
          Returns(t, "get_chat_threads") =>
             LET own == {c \in convs : c.uid = call'[t].uid} IN
             /\ ret'[t].kind = "list"
             /\ Elems(ret'[t].docs) = own
             /\ Len(ret'[t].docs) = Cardinality(own)
             /\ own = {} => ret'[t].docs = <<>>]_vars

\* get_chat_threads has returned a user's thread while another user has one too.
C8_Witness ==
    \E t \in Threads :
        /\ Listed(t, "get_chat_threads")
        /\ Len(ret[t].docs) = 1
        /\ \E c \in convs : c.uid # call[t].uid

\* C9: no step modifies or deletes a stored record; create_new_chat adds one
\* thread record and leaves the messages alone, store_message adds one message
\* record and leaves the threads alone, and every other step leaves both
\* collections as they are.
C9_AppendOnly ==
    [][/\ convs \subseteq convs'
       /\ msgs \subseteq msgs'
       /\ \A t \in Threads :
             /\ Returns(t, "create_new_chat") =>
                   (Cardinality(convs') = Cardinality(convs) + 1 /\ msgs' = msgs)
             /\ Returns(t, "store_message") =>
                   (Cardinality(msgs') = Cardinality(msgs) + 1 /\ convs' = convs)
             /\ Returns(t, "get_chat_threads") => (convs' = convs /\ msgs' = msgs)
             /\ Returns(t, "get_chat_messages") => (convs' = convs /\ msgs' = msgs)
       /\ (\A t \in Threads : pc[t] # "commit" \/ pc'[t] = "commit") =>
             (convs' = convs /\ msgs' = msgs)]_vars

\* Both collections hold a record and a read has returned.
C9_Witness ==
    /\ convs # {}
    /\ msgs # {}
    /\ \E t \in Threads : Listed(t, "get_chat_messages")

\* C10: what get_chat_messages returns for a thread id is what it returns for
\* that thread id under any other uid, and it holds the messages of that thread
\* whoever stored them.
C10_MessagesIgnoreUid ==
    [][\A t \in Threads :
          Returns(t, "get_chat_messages") =>
             /\ \A u \in Uids : ret'[t].docs = MessagesOf(msgs, u, call'[t].chat_id)
             /\ \A m \in msgs :
                   (m.conversationId = call'[t].chat_id /\ m.uid # call'[t].uid) =>
                       ToDict(m) \in Elems(ret'[t].docs)]_vars

\* get_chat_messages has returned to one user a message another user stored.
C10_Witness ==
    \E t \in Threads :
        /\ Listed(t, "get_chat_messages")
        /\ \E i \in 1..Len(ret[t].docs) : ret[t].docs[i].uid # call[t].uid

====
